---- MODULE Spec2Model ----
(***************************************************************************)
(* Model of the Telegram OCR bot: the image pre-processing pipeline of     *)
(* src/bots/img_processing.py and the photo handler of                     *)
(* src/bots/cv_with_processing.py.                                         *)
(*                                                                         *)
(* Images are terms: a decoded picture is identified by the line           *)
(* candidates the Hough transform finds in it, and every OpenCV call       *)
(* appends its name (and, for warpAffine, its angle) to the term, so two   *)
(* values are equal exactly when the same calls were chained on the same   *)
(* picture.  Angles are integers counted in half degrees ("2" suffix), so  *)
(* that np.median of an even number of whole-degree angles is exact.       *)
(* Float rounding of np.degrees is not modelled.  The OpenCV calls behave  *)
(* as in OpenCV 4: an argument that is no array, or an empty image handed  *)
(* to imwrite, raises cv2.error.  Every await on the Telegram API and      *)
(* every call of the OCR client may raise.                                 *)
(***************************************************************************)
EXTENDS Integers, Sequences, FiniteSets, TLC

\* ------------------------------------------------------------- bounds
MaxLines == 3
MaxRuns == 3
MaxClock == 2
MaxPolls == 2
MaxTextLines == 1

\* ------------------------------------------------------------- values
None == [kind |-> "None"]
Unbound == [kind |-> "unbound"]
Clahe == [kind |-> "CLAHE"]

IsImage(v) == v.kind = "image"

\* cv2.imdecode(img_array, cv2.IMREAD_COLOR): a 3-channel image, or None
\* when the bytes are no image.
Imdecode(p) ==
  IF p.decodable
    THEN [kind |-> "image", lines |-> p.lines, ch |-> 3, ops |-> <<>>]
    ELSE None

\* The outcome of a call: the value it returns, or that it raised.
Ret(v) == [raised |-> FALSE, val |-> v]
Raise == [raised |-> TRUE, val |-> None]

Applied(f, a, v) == [v EXCEPT !.ops = Append(@, [f |-> f, a |-> a])]

\* cv2.cvtColor(img, cv2.COLOR_BGR2GRAY): needs a colour image.
CvtColorGray(v) ==
  IF IsImage(v) /\ v.ch = 3
    THEN Ret([Applied("cvtColor", 0, v) EXCEPT !.ch = 1])
    ELSE Raise

\* equalizeHist and the Otsu threshold need a single-channel 8-bit image.
SingleChannelOp(f, v) ==
  IF IsImage(v) /\ v.ch = 1 THEN Ret(Applied(f, 0, v)) ELSE Raise

\* fastNlMeansDenoising, filter2D, dilate, GaussianBlur take any image.
AnyImageOp(f, v) ==
  IF IsImage(v) THEN Ret(Applied(f, 0, v)) ELSE Raise

\* clahe.apply(src): the receiver must be the CLAHE object and the
\* argument a single-channel image, otherwise the call raises.
ClaheApply(recv, v) ==
  IF recv = Clahe /\ IsImage(v) /\ v.ch = 1
    THEN Ret(Applied("apply", 0, v))
    ELSE Raise

\* Faulty variant: imwrite takes None for an empty image and writes it.
ImwriteAcceptsNone(v) == ~IsImage(v) /\ v # None

\* cv2.imwrite raises on anything that is not a non-empty image.
ImwriteRaises(v) == ~IsImage(v)

\* cv2.imencode('.png', processed) wrapped in io.BytesIO.
Imencode(v) ==
  IF IsImage(v) THEN Ret([kind |-> "png", of |-> v]) ELSE Raise

\* ------------------------------------------- rotate_image_to_center
\* cv2.HoughLines(edges, 1, np.pi / 180, 200): the thetas (whole degrees in
\* 0..179) of the detected lines, in detection order, or None.
HoughLines(img) ==
  IF img.lines = <<>> THEN None ELSE [kind |-> "lines", thetas |-> img.lines]

\* angle = np.degrees(theta) - 90
NormalizedAngle(theta) == theta - 90

RECURSIVE Insert(_, _)
Insert(x, s) ==
  IF s = <<>> THEN <<x>>
  ELSE IF x <= Head(s) THEN <<x>> \o s
  ELSE <<Head(s)>> \o Insert(x, Tail(s))

RECURSIVE Sort(_)
Sort(s) == IF s = <<>> THEN <<>> ELSE Insert(Head(s), Sort(Tail(s)))

\* Faulty variant: the upper middle element, whatever the parity of the count.
UpperMedian2(angles) ==
  LET s == Sort(angles)
  IN 2 * s[Len(s) \div 2 + 1]

\* np.median(angles), in half degrees: the middle element of the sorted
\* list, or the mean of the two middle elements.
Median2(angles) ==
  LET s == Sort(angles)
      n == Len(s)
  IN IF n % 2 = 1 THEN 2 * s[(n + 1) \div 2]
     ELSE s[n \div 2] + s[n \div 2 + 1]

\* The angle handed to cv2.getRotationMatrix2D(center, median_angle, 1.0).
RotationAngle2(thetas) ==
  Median2([i \in 1..Len(thetas) |-> NormalizedAngle(thetas[i])])

\* cv2.warpAffine(img, rotation_matrix, (w, h), ...): same size and channels.
WarpAffine(img, angle2) == Applied("warpAffine", angle2, img)

\* Faulty variant: no lines taken for a skew of zero, and the image resampled.
NoLinesRotatesByZero(img) == WarpAffine(img, 0)

\* What the function returns when HoughLines found nothing.
NoLinesResult(img) == img

rotate_image_to_center(img) ==
  IF CvtColorGray(img).raised THEN Raise
  ELSE LET lines == HoughLines(img)
       IN IF lines # None
            THEN Ret(WarpAffine(img, RotationAngle2(lines.thetas)))
            ELSE Ret(NoLinesResult(img))

\* --------------------------------------------- process_image_for_ocr
\* The body of process_image_for_ocr, statement by statement: op is the
\* call, dst the variable assigned, recv the receiver of a method call,
\* src the variable passed, label the artifact's stage label.
Stmt(op, dst, recv, src, label) ==
  [op |-> op, dst |-> dst, recv |-> recv, src |-> src, label |-> label]

Body == <<
  Stmt("rotate_image_to_center", "img", "", "img", ""),
  Stmt("cvtColor", "img", "", "img", ""),
  Stmt("imwrite", "", "", "img", "1_gray"),
  Stmt("equalizeHist", "img", "", "img", ""),
  Stmt("imwrite", "", "", "img", "21_threshold"),
  Stmt("threshold", "img", "", "img", ""),
  Stmt("imwrite", "", "", "img", "2_threshold"),
  Stmt("fastNlMeansDenoising", "img", "", "img", ""),
  Stmt("imwrite", "", "", "img", "3_denoised"),
  Stmt("createCLAHE", "img", "", "", ""),
  Stmt("apply", "enhanced", "img", "img", ""),
  Stmt("imwrite", "", "", "img", "4_enhanced"),
  Stmt("filter2D", "sharpened", "", "enhanced", ""),
  Stmt("imwrite", "", "", "sharpened", "5_sharpened"),
  Stmt("dilate", "dilated", "", "sharpened", ""),
  Stmt("imwrite", "", "", "dilated", "6_dilated"),
  Stmt("GaussianBlur", "final", "", "dilated", ""),
  Stmt("imwrite", "", "", "final", "7_final"),
  Stmt("return", "", "", "enhanced", "") >>

Locals == {"img", "enhanced", "sharpened", "dilated", "final"}

\* The locals on entry: img is the parameter, the rest are not yet bound.
EntryEnv(img) == [x \in Locals |-> IF x = "img" THEN img ELSE Unbound]

\* The call a statement makes, on the current locals.
Call(s, e) ==
  CASE s.op = "rotate_image_to_center" -> rotate_image_to_center(e[s.src])
    [] s.op = "cvtColor" -> CvtColorGray(e[s.src])
    [] s.op \in {"equalizeHist", "threshold"} -> SingleChannelOp(s.op, e[s.src])
    [] s.op \in {"fastNlMeansDenoising", "filter2D", "dilate", "GaussianBlur"}
         -> AnyImageOp(s.op, e[s.src])
    [] s.op = "createCLAHE" -> Ret(Clahe)
    [] s.op = "apply" -> ClaheApply(e[s.recv], e[s.src])
    [] s.op = "imwrite" ->
         IF ImwriteRaises(e[s.src]) THEN Raise ELSE Ret(e[s.src])
    [] s.op = "return" ->
         IF e[s.src] = Unbound THEN Raise ELSE Ret(e[s.src])

\* ------------------------------------------------------------- files
\* os.path.join(output_dir, f"{timestamp}_{label}.png")
ArtifactName(ts, label) == <<ts, label>>

\* cv2.imwrite(path, img) on an image: creates the file or replaces its
\* content; writes nothing when the directory is missing.
Imwrite(d, exists, name, v) ==
  IF exists
    THEN [k \in DOMAIN d \cup {name} |-> IF k = name THEN v ELSE d[k]]
    ELSE d

\* Faulty variant: the time stamp formatted anew at every write.
StampAtWrite(taken, now) == now

\* The time stamp an artifact written now is named with: the one taken
\* when the run began (line 19), whatever the clock shows now.
StampOfWrite(taken, now) == taken

\* Faulty variant: on failure the encoded original is handed back instead.
ReturnsOriginalOnRaise(old, orig) ==
  IF IsImage(orig) THEN [kind |-> "png", of |-> orig] ELSE old

\* What handle_photo's processed_image holds once
\* download_and_preprocess_image has raised: line 69 assigned nothing.
AssignedOnRaise(old, orig) == old

\* ---------------------------------------------------------- the inputs
\* What a photo URL yields: nothing (the fetch raises), bytes that are no
\* image, or a picture with the lines the Hough transform finds in it.
PhotoLines == {<<>>, <<93>>, <<91, 45>>}

Photos ==
  {[reachable |-> FALSE, decodable |-> FALSE, lines |-> <<>>],
   [reachable |-> TRUE, decodable |-> FALSE, lines |-> <<>>]}
  \cup {[reachable |-> TRUE, decodable |-> TRUE, lines |-> l] : l \in PhotoLines}

\* The thetas HoughLines reports, for the check of the rotation alone.
Thetas == {0, 45, 89, 90, 91, 93, 178}

RECURSIVE SeqsUpTo(_, _)
SeqsUpTo(S, n) ==
  IF n = 0 THEN {<<>>}
  ELSE LET shorter == SeqsUpTo(S, n - 1)
       IN shorter \cup {Append(s, x) : s \in shorter, x \in S}

\* read_result.status and the number of text lines read.
Statuses == {"notStarted", "running", "failed", "succeeded"}
Pending == {"notStarted", "running"}

VARIABLES
  clock,            \* datetime.now(), in seconds
  dirExists,        \* os.path.exists("processed_images")
  disk,             \* the files of processed_images: name -> content
  runs,             \* updates handed to handle_photo so far
  hpc,              \* handle_photo's position
  photo,            \* what photo_url yields
  pmBound,          \* processing_message is bound
  processed_image,
  submitted,        \* the calls made to the OCR service
  status,           \* read_result.status
  nlines,           \* len(text_results)
  dots,
  polls,            \* iterations of the polling loop so far
  msgs,             \* every reply_text / edit_text attempted, in order
  timestamp,
  original_img,
  env,              \* the locals of process_image_for_ocr
  ppc,              \* the next statement of process_image_for_ocr
  trace,            \* history: the calls and writes of this run's pipeline
  disk0,            \* history: the files when this run began
  prep,             \* history: how download_and_preprocess_image ended
  rin,              \* rotate_image_to_center alone: its argument
  rout              \* rotate_image_to_center alone: its outcome

vars == <<clock, dirExists, disk, runs, hpc, photo, pmBound, processed_image,
          submitted, status, nlines, dots, polls, msgs, timestamp,
          original_img, env, ppc, trace, disk0, prep, rin, rout>>

world == <<clock, runs, rin, rout, disk0, photo>>
files == <<dirExists, disk>>
ocr == <<submitted, status, nlines, dots, polls>>
download == <<timestamp, original_img, env, ppc, trace, prep>>

Init ==
  /\ clock = 0
  /\ dirExists = FALSE
  /\ disk = [k \in {} |-> None]
  /\ runs = 0
  /\ hpc = "idle"
  /\ photo = [reachable |-> FALSE, decodable |-> FALSE, lines |-> <<>>]
  /\ pmBound = FALSE
  /\ processed_image = Unbound
  /\ submitted = <<>>
  /\ status = "none"
  /\ nlines = 0
  /\ dots = 0
  /\ polls = 0
  /\ msgs = <<>>
  /\ timestamp = -1
  /\ original_img = Unbound
  /\ env = EntryEnv(Unbound)
  /\ ppc = 0
  /\ trace = <<>>
  /\ disk0 = [k \in {} |-> None]
  /\ prep = "none"
  /\ rin = None
  /\ rout = Ret(Unbound)

\* The wall clock advances at any moment.
Tick ==
  /\ clock < MaxClock
  /\ clock' = clock + 1
  /\ UNCHANGED <<dirExists, disk, runs, hpc, photo, pmBound, processed_image,
                 submitted, status, nlines, dots, polls, msgs, timestamp,
                 original_img, env, ppc, trace, disk0, prep, rin, rout>>

\* An await on the Telegram API either returns or raises; the handler then
\* goes on, or to its outer except clause.
Say(text, ok, next) ==
  /\ msgs' = Append(msgs, text)
  /\ hpc' = IF ok THEN next ELSE "except"

\* The application hands handle_photo one update at a time: main builds it
\* without concurrent updates, and the handler blocks the event loop.
Receive(p) ==
  /\ hpc \in {"idle", "done", "crashed"}
  /\ runs < MaxRuns
  /\ runs' = runs + 1
  /\ hpc' = "reply"
  /\ photo' = p
  /\ pmBound' = FALSE
  /\ processed_image' = Unbound
  /\ submitted' = <<>>
  /\ status' = "none"
  /\ nlines' = 0
  /\ dots' = 0
  /\ polls' = 0
  /\ msgs' = <<>>
  /\ timestamp' = -1
  /\ original_img' = Unbound
  /\ env' = EntryEnv(Unbound)
  /\ ppc' = 0
  /\ trace' = <<>>
  /\ disk0' = disk
  /\ prep' = "none"
  /\ UNCHANGED <<clock, dirExists, disk, rin, rout>>

\* lines 53-55
ReplyReceiving(ok) ==
  /\ hpc = "reply"
  /\ Say("receiving", ok, "get_file")
  /\ pmBound' = ok
  /\ UNCHANGED <<world, files, ocr, download, processed_image>>

\* lines 58-60
GetFile(ok) ==
  /\ hpc = "get_file"
  /\ hpc' = IF ok THEN "edit_preprocessing" ELSE "except"
  /\ UNCHANGED <<world, files, ocr, download, processed_image, pmBound, msgs>>

\* line 62
EditPreprocessing(ok) ==
  /\ hpc = "edit_preprocessing"
  /\ Say("preprocessing", ok, "ensure_dir")
  /\ UNCHANGED <<world, files, ocr, download, processed_image, pmBound>>

\* line 65
EnsureDir ==
  /\ hpc = "ensure_dir"
  /\ dirExists' = TRUE
  /\ hpc' = "download"
  /\ UNCHANGED <<world, disk, ocr, download, processed_image, pmBound, msgs>>

\* lines 18-19
DownloadStart ==
  /\ hpc = "download"
  /\ dirExists' = TRUE
  /\ timestamp' = clock
  /\ hpc' = "fetch"
  /\ UNCHANGED <<world, disk, ocr, original_img, env, ppc, trace, prep,
                 processed_image, pmBound, msgs>>

\* An exception leaves download_and_preprocess_image.
Raised(op) ==
  /\ prep' = "raised"
  /\ hpc' = "preprocessed"
  /\ trace' = Append(trace, [ev |-> "raise", op |-> op, label |-> "", val |-> None])
  /\ processed_image' = AssignedOnRaise(processed_image, original_img)

\* line 22
Fetch ==
  /\ hpc = "fetch"
  /\ IF photo.reachable
       THEN /\ hpc' = "decode"
            /\ UNCHANGED <<trace, prep, processed_image>>
       ELSE Raised("get")
  /\ UNCHANGED <<world, files, ocr, timestamp, original_img, env, ppc,
                 pmBound, msgs>>

\* lines 23-24
Decode ==
  /\ hpc = "decode"
  /\ original_img' = Imdecode(photo)
  /\ hpc' = "save_original"
  /\ UNCHANGED <<world, files, ocr, timestamp, env, ppc, trace, prep,
                 processed_image, pmBound, msgs>>

\* lines 27-31, up to the call of process_image_for_ocr
SaveOriginal ==
  /\ hpc = "save_original"
  /\ IF ImwriteRaises(original_img)
       THEN /\ Raised("imwrite")
            /\ UNCHANGED <<disk, env, ppc>>
       ELSE /\ disk' = Imwrite(disk, dirExists,
                         ArtifactName(StampOfWrite(timestamp, clock), "original"),
                         original_img)
            /\ trace' = Append(trace, [ev |-> "imwrite", op |-> "imwrite",
                                       label |-> "original", val |-> original_img])
            /\ env' = EntryEnv(original_img)
            /\ ppc' = 1
            /\ hpc' = "pipeline"
            /\ UNCHANGED <<prep, processed_image>>
  /\ UNCHANGED <<world, dirExists, ocr, timestamp, original_img, pmBound, msgs>>

\* One statement of process_image_for_ocr (lines 74-115); its return
\* statement goes on through lines 34-35 and the assignment of line 69.
PipelineStep ==
  /\ hpc = "pipeline"
  /\ LET s == Body[ppc]
         r == Call(s, env)
     IN IF r.raised
          THEN /\ Raised(s.op)
               /\ UNCHANGED <<disk, env, ppc>>
          ELSE IF s.op = "imwrite"
            THEN /\ disk' = Imwrite(disk, dirExists,
                              ArtifactName(StampOfWrite(timestamp, clock), s.label),
                              r.val)
                 /\ trace' = Append(trace, [ev |-> "imwrite", op |-> s.op,
                                            label |-> s.label, val |-> r.val])
                 /\ ppc' = ppc + 1
                 /\ UNCHANGED <<env, hpc, prep, processed_image>>
          ELSE IF s.op = "return"
            THEN IF Imencode(r.val).raised
                   THEN /\ Raised("imencode")
                        /\ UNCHANGED <<disk, env, ppc>>
                   ELSE /\ processed_image' = Imencode(r.val).val
                        /\ prep' = "returned"
                        /\ hpc' = "preprocessed"
                        /\ trace' = Append(trace, [ev |-> "return", op |-> s.op,
                                                   label |-> "", val |-> r.val])
                        /\ UNCHANGED <<disk, env, ppc>>
          ELSE /\ env' = [env EXCEPT ![s.dst] = r.val]
               /\ trace' = Append(trace, [ev |-> "call", op |-> s.op,
                                          label |-> "", val |-> r.val])
               /\ ppc' = ppc + 1
               /\ UNCHANGED <<disk, hpc, prep, processed_image>>
  /\ UNCHANGED <<world, dirExists, ocr, timestamp, original_img, pmBound, msgs>>

\* lines 70-76: the edit after a successful preprocessing sits inside the
\* try, so its failure too ends in the except clause, whose own edit is
\* not guarded.
Preprocessed(ok70, ok75) ==
  /\ hpc = "preprocessed"
  /\ IF prep = "returned" /\ ok70
       THEN /\ Say("enhanced", TRUE, "submit")
            /\ UNCHANGED processed_image
       ELSE /\ msgs' = msgs \o (IF prep = "returned" THEN <<"enhanced">> ELSE <<>>)
                            \o <<"warning">>
            /\ hpc' = IF ok75 THEN "submit" ELSE "except"
            /\ processed_image' = IF ok75 THEN None ELSE processed_image
  /\ UNCHANGED <<world, files, ocr, download, pmBound>>

\* Faulty variant: the stream call made whatever preprocessing left behind.
OcrCallAlwaysStream(pi, url) == [call |-> "read_in_stream", arg |-> pi]

\* Which OCR call lines 79-82 make.
OcrCall(pi, url) ==
  IF pi # None
    THEN [call |-> "read_in_stream", arg |-> pi]
    ELSE [call |-> "read", arg |-> url]

\* lines 79-85
SubmitOCR(ok) ==
  /\ hpc = "submit"
  /\ submitted' = Append(submitted, OcrCall(processed_image, photo))
  /\ hpc' = IF ok THEN "edit_analyzing" ELSE "except"
  /\ UNCHANGED <<world, files, download, processed_image, pmBound, msgs,
                 status, nlines, dots, polls>>

\* lines 87-90
EditAnalyzing(ok) ==
  /\ hpc = "edit_analyzing"
  /\ Say("analyzing", ok, "poll")
  /\ dots' = IF ok THEN 1 ELSE dots
  /\ UNCHANGED <<world, files, download, processed_image, pmBound,
                 submitted, status, nlines, polls>>

\* Where the loop goes after get_read_result returned status st.
AfterPoll(st) == IF st \notin Pending THEN "extract" ELSE "edit_waiting"

\* lines 92-94
Poll(ok, st, n) ==
  /\ hpc = "poll"
  /\ st \in Pending => polls < MaxPolls
  /\ n > 0 => st = "succeeded"
  /\ IF ok
       THEN /\ status' = st
            /\ nlines' = n
            /\ polls' = polls + 1
            /\ hpc' = AfterPoll(st)
       ELSE /\ hpc' = "except"
            /\ UNCHANGED <<status, nlines, polls>>
  /\ UNCHANGED <<world, files, download, processed_image, pmBound, msgs,
                 submitted, dots>>

\* Faulty variant: a progress edit that raises is not caught.
AbortOnFailedEdit(ok) == IF ok THEN "poll" ELSE "except"

\* Where the loop goes after its progress edit returned or raised.
AfterWaitingEdit(ok) == "poll"

\* lines 97-105
EditWaiting(ok) ==
  /\ hpc = "edit_waiting"
  /\ dots' = (dots % 3) + 1
  /\ msgs' = Append(msgs, "waiting")
  /\ hpc' = AfterWaitingEdit(ok)
  /\ UNCHANGED <<world, files, download, processed_image, pmBound,
                 submitted, status, nlines, polls>>

\* The message lines 108-130 choose.
FinalMessage(st, n) ==
  IF st = "succeeded"
    THEN IF n > 0 THEN "extracted" ELSE "no_text"
    ELSE "could_not_process"

\* lines 108-130
Extract(ok) ==
  /\ hpc = "extract"
  /\ Say(FinalMessage(status, nlines), ok, "done")
  /\ UNCHANGED <<world, files, ocr, download, processed_image, pmBound>>

\* lines 132-141: edit the progress message, else reply; an unbound
\* processing_message makes the edit raise.
Except(okEdit, okReply) ==
  /\ hpc = "except"
  /\ IF pmBound /\ okEdit
       THEN /\ msgs' = Append(msgs, "error")
            /\ hpc' = "done"
       ELSE /\ msgs' = msgs \o (IF pmBound THEN <<"error">> ELSE <<>>)
                            \o <<"error_reply">>
            /\ hpc' = IF okReply THEN "done" ELSE "crashed"
  /\ UNCHANGED <<world, files, ocr, download, processed_image, pmBound>>

Next ==
  \/ Tick
  \/ \E p \in Photos : Receive(p)
  \/ \E ok \in BOOLEAN : ReplyReceiving(ok)
  \/ \E ok \in BOOLEAN : GetFile(ok)
  \/ \E ok \in BOOLEAN : EditPreprocessing(ok)
  \/ EnsureDir
  \/ DownloadStart
  \/ Fetch
  \/ Decode
  \/ SaveOriginal
  \/ PipelineStep
  \/ \E ok70, ok75 \in BOOLEAN : Preprocessed(ok70, ok75)
  \/ \E ok \in BOOLEAN : SubmitOCR(ok)
  \/ \E ok \in BOOLEAN : EditAnalyzing(ok)
  \/ \E ok \in BOOLEAN, st \in Statuses, n \in 0..MaxTextLines : Poll(ok, st, n)
  \/ \E ok \in BOOLEAN : EditWaiting(ok)
  \/ \E ok \in BOOLEAN : Extract(ok)
  \/ \E okEdit, okReply \in BOOLEAN : Except(okEdit, okReply)

Spec == Init /\ [][Next]_vars

\* ------------------------------ rotate_image_to_center on its own
RotateInputs ==
  {None} \cup {Imdecode([reachable |-> TRUE, decodable |-> TRUE, lines |-> l]) :
                 l \in SeqsUpTo(Thetas, MaxLines)}

InitRotate ==
  /\ clock = 0
  /\ dirExists = FALSE
  /\ disk = [k \in {} |-> None]
  /\ runs = 0
  /\ hpc = "idle"
  /\ photo = [reachable |-> FALSE, decodable |-> FALSE, lines |-> <<>>]
  /\ pmBound = FALSE
  /\ processed_image = Unbound
  /\ submitted = <<>>
  /\ status = "none"
  /\ nlines = 0
  /\ dots = 0
  /\ polls = 0
  /\ msgs = <<>>
  /\ timestamp = -1
  /\ original_img = Unbound
  /\ env = EntryEnv(Unbound)
  /\ ppc = 0
  /\ trace = <<>>
  /\ disk0 = [k \in {} |-> None]
  /\ prep = "none"
  /\ rin \in RotateInputs
  /\ rout = Ret(Unbound)

\* img = rotate_image_to_center(img), line 74
ApplyRotate ==
  /\ rout = Ret(Unbound)
  /\ rout' = rotate_image_to_center(rin)
  /\ UNCHANGED <<clock, dirExists, disk, runs, hpc, photo, pmBound,
                 processed_image, submitted, status, nlines, dots, polls, msgs,
                 timestamp, original_img, env, ppc, trace, disk0, prep, rin>>

NextRotate == ApplyRotate

SpecRotate == InitRotate /\ [][NextRotate]_vars

\* =====================================================================
\* What the specification says of the pipeline, stated apart from Body.
\* =====================================================================

\* The eight stages in the specified order, and the label of each.
StageOps == <<"cvtColor", "equalizeHist", "threshold", "fastNlMeansDenoising",
              "apply", "filter2D", "dilate", "GaussianBlur">>
StageLabels == <<"1_gray", "21_threshold", "2_threshold", "3_denoised",
                 "4_enhanced", "5_sharpened", "6_dilated", "7_final">>
AllLabels == <<"original">> \o StageLabels

\* The image after stages 1..k were chained on the oriented image o.
StageImage(o, k) ==
  [kind |-> "image", lines |-> o.lines, ch |-> 1,
   ops |-> o.ops \o [i \in 1..k |-> [f |-> StageOps[i], a |-> 0]]]

IsWrite(e) == e.ev = "imwrite"
IsStageCall(e) == e.ev = "call" /\ \E i \in 1..Len(StageOps) : e.op = StageOps[i]
IsOrientation(e) == e.ev = "call" /\ e.op = "rotate_image_to_center"

Writes == SelectSeq(trace, IsWrite)
StageCalls == SelectSeq(trace, IsStageCall)
Orientations == SelectSeq(trace, IsOrientation)

WrittenLabels == [i \in 1..Len(Writes) |-> Writes[i].label]

\* download_and_preprocess_image has ended, by return or by exception.
Ended == prep # "none"
Decoded == IsImage(original_img)
Finished == hpc \in {"done", "crashed"}

\* The run wrote the artifact of stage k, and it is on disk under the
\* run's time stamp.
Persisted(k) ==
  /\ \E i \in 1..Len(Writes) : Writes[i].label = StageLabels[k]
  /\ ArtifactName(timestamp, StageLabels[k]) \in DOMAIN disk

C2_CompletesWithNineArtifacts ==
  (Ended /\ photo.reachable /\ photo.decodable) =>
    /\ prep = "returned"
    /\ processed_image.kind = "png"
    /\ WrittenLabels = AllLabels
    /\ \A i \in 1..Len(AllLabels) : ArtifactName(timestamp, AllLabels[i]) \in DOMAIN disk

\* ---------------------------------------------------------------- C3
\* C3: within one run the stages are applied in the order grayscale,
\* equalization, threshold, denoise, contrast enhancement, sharpen, dilate,
\* blur, and the artifact written under a stage's label is that stage's
\* in-memory output, written before the next stage is computed.  Stated of
\* a run that has ended on a decoded picture: its stage calls are the eight
\* in order, and the k-th stage artifact is the k-th call's output.
C3_EightStagesInOrderEachPersisted ==
  (Ended /\ Decoded) =>
    /\ [i \in 1..Len(StageCalls) |-> StageCalls[i].op] = StageOps
    /\ Len(Writes) = Len(AllLabels)
    /\ \A k \in 1..Len(StageOps) :
         /\ Writes[k + 1].label = StageLabels[k]
         /\ Writes[k + 1].val = StageCalls[k].val

\* ---------------------------------------------------------------- C5
\* C5: given bytes that do not decode to an image,
\* download_and_preprocess_image fails and produces zero artifacts: no file,
\* not even the original, is written for that run, and no stage of the
\* orientation corrector or of the pipeline is executed.
Undecodable == photo.reachable /\ ~photo.decodable

C5_DecodeFailureWritesNothing ==
  (Undecodable /\ hpc \notin {"idle", "reply", "get_file", "edit_preprocessing"}) =>
    /\ disk = disk0
    /\ Writes = <<>>
    /\ \A i \in 1..Len(trace) : trace[i].ev = "raise"
    /\ prep # "returned"
    /\ hpc \notin {"pipeline"}
    /\ (Ended \/ hpc \in {"preprocessed", "submit", "edit_analyzing", "poll",
                           "edit_waiting", "extract"})
         => prep = "raised"

C5_Witness ==
  /\ Undecodable
  /\ hpc = "preprocessed"
  /\ prep = "raised"
  /\ disk0 # [k \in {} |-> None]

\* ---------------------------------------------------------------- C6
\* C6: a run is all-or-nothing: when download_and_preprocess_image has
\* failed, no image buffer reaches the caller, every artifact written by
\* the stages completed before the failure is on disk as written, and no
\* artifact of a later stage exists for that run.
IsPrefix(s, u) == Len(s) <= Len(u) /\ \A i \in 1..Len(s) : s[i] = u[i]

C6_AllOrNothing ==
  prep = "raised" =>
    /\ processed_image.kind # "png"
    /\ IsPrefix(WrittenLabels, AllLabels)
    /\ Decoded => Len(Writes) = Len(StageCalls) + 1
    /\ \A i \in 1..Len(Writes) :
         /\ ArtifactName(timestamp, Writes[i].label) \in DOMAIN disk
         /\ disk[ArtifactName(timestamp, Writes[i].label)] = Writes[i].val
    /\ \A i \in (Len(Writes) + 1)..Len(AllLabels) :
         LET name == ArtifactName(timestamp, AllLabels[i])
         IN name \in DOMAIN disk => name \in DOMAIN disk0 /\ disk[name] = disk0[name]

C6_Witness ==
  /\ prep = "raised"
  /\ hpc = "submit"
  /\ Len(Writes) = 5
  /\ processed_image = None

\* ---------------------------------------------------------------- C7
\* C7: when line detection yields no candidate, rotate_image_to_center
\* skips the rotation and returns its input unchanged, by a normal return,
\* and the pipeline goes on with that unrotated image.
NoCandidates == Decoded /\ HoughLines(original_img) = None

C7_NoLinesIsIdentity ==
  (NoCandidates /\ Len(trace) >= 2) =>
    /\ trace[2].ev = "call"
    /\ trace[2].op = "rotate_image_to_center"
    /\ trace[2].val = original_img
    /\ Len(trace) >= 4 =>
         /\ trace[3].val = [original_img EXCEPT !.ch = 1,
                                               !.ops = <<[f |-> "cvtColor", a |-> 0]>>]
         /\ trace[4].label = "1_gray"
         /\ disk[ArtifactName(timestamp, "1_gray")] = trace[3].val

C7_Witness ==
  /\ NoCandidates
  /\ Len(trace) >= 4
  /\ ArtifactName(timestamp, "1_gray") \in DOMAIN disk

\* ---------------------------------------------------------------- C9
\* C9: artifacts are named by the time stamp taken once when the run began
\* and the stage label, so a run that starts in the same second as an
\* earlier one replaces the earlier run's file for every label it reaches,
\* and files carrying another time stamp are never touched.
C9_NamedByRunTimestamp ==
  /\ timestamp = -1 => disk = disk0
  /\ DOMAIN disk0 \subseteq DOMAIN disk
  /\ \A i \in 1..Len(Writes) :
       /\ ArtifactName(timestamp, Writes[i].label) \in DOMAIN disk
       /\ disk[ArtifactName(timestamp, Writes[i].label)] = Writes[i].val
  /\ \A name \in DOMAIN disk :
       \/ name \in DOMAIN disk0 /\ disk[name] = disk0[name]
       \/ /\ name[1] = timestamp
          /\ \E i \in 1..Len(Writes) : name[2] = Writes[i].label

\* A later run of the same second has replaced an earlier run's file and
\* went on writing under its own time stamp after the clock had moved on,
\* while a file of another second is still as it was.
C9_Witness ==
  /\ \E name \in DOMAIN disk0 : name[1] = timestamp /\ disk[name] # disk0[name]
  /\ \E name \in DOMAIN disk0 : name[1] # timestamp /\ disk[name] = disk0[name]
  /\ Len(Writes) = 5
  /\ clock # timestamp

\* ---------------------------------------------------------------- C4
\* C4 as stated: whenever download_and_preprocess_image has failed,
\* handle_photo does not fail the request but submits the original image by
\* URL exactly once and goes on to polling, and every run makes exactly one
\* of the two OCR submissions.  Stated of the finished runs that got as far
\* as preprocessing.
UrlSubmission == [call |-> "read", arg |-> photo]

ResultMessages == {"extracted", "no_text", "could_not_process"}
ErrorMessages == {"error", "error_reply"}
IsResultMessage(m) == m \in ResultMessages
IsClosingMessage(m) == m \in ResultMessages \cup ErrorMessages
Terminal == status \in {"failed", "succeeded"}

\* C10 as stated: once the service has reported a status other than
\* notStarted or running, the handler terminates having attempted exactly
\* one final message, the one that matches the status.
C10_ExactlyOneFinalMessage ==
  (Finished /\ Terminal) =>
    SelectSeq(msgs, IsClosingMessage) = <<FinalMessage(status, nlines)>>

\* C10 amended: control passes from the polling loop to the extraction of
\* the result only on a status other than notStarted or running; a progress
\* edit, raising or not, leads back to the poll; and once such a status was
\* reported the handler ends having attempted exactly one result message,
\* the extracted text iff succeeded with a line read, the no-text message
\* iff succeeded with none, the could-not-process message otherwise,
\* followed only, when that edit raised, by the error notice.
C10_ResultStep ==
  /\ (hpc = "edit_waiting" /\ hpc' # hpc) => hpc' = "poll"
  /\ (hpc \in {"poll", "edit_waiting"} /\ hpc' = "extract") =>
        status' \notin Pending /\ status' \in Statuses
  /\ (hpc = "poll" /\ status' \in Pending /\ polls' # polls) => hpc' = "edit_waiting"
  /\ (hpc' \in {"done", "crashed"} /\ status' \in {"failed", "succeeded"}) =>
        /\ SelectSeq(msgs', IsResultMessage) = <<FinalMessage(status', nlines')>>
        /\ FinalMessage(status', nlines') = "extracted"
             <=> (status' = "succeeded" /\ nlines' > 0)
        /\ FinalMessage(status', nlines') = "no_text"
             <=> (status' = "succeeded" /\ nlines' = 0)
        /\ \A i \in 1..Len(msgs') :
             msgs'[i] \in ErrorMessages =>
               \E j \in 1..(i - 1) : msgs'[j] \in ResultMessages
  /\ (hpc' \in {"done", "crashed"} /\ status' \notin {"failed", "succeeded"}) =>
        SelectSeq(msgs', IsResultMessage) = <<>>

C10_PollingLoop == [][C10_ResultStep]_vars

C10_Witness ==
  /\ hpc = "done"
  /\ status = "succeeded"
  /\ nlines > 0
  /\ polls >= 2
  /\ \E i \in 1..Len(msgs) : msgs[i] = "waiting"
  /\ msgs[Len(msgs)] = "extracted"

\* ---------------------------------------------------------------- C8
\* The k-th smallest of the values of a, by rank.
Kth(a, k) ==
  CHOOSE x \in {a[i] : i \in 1..Len(a)} :
    /\ Cardinality({i \in 1..Len(a) : a[i] < x}) < k
    /\ k <= Cardinality({i \in 1..Len(a) : a[i] <= x})

\* The median of the candidates' (theta - 90), in half degrees.
SkewAngle2(thetas) ==
  LET a == [i \in 1..Len(thetas) |-> thetas[i] - 90]
      n == Len(a)
  IN IF n % 2 = 1 THEN 2 * Kth(a, (n + 1) \div 2)
     ELSE Kth(a, n \div 2) + Kth(a, n \div 2 + 1)

Rotated == rout # Ret(Unbound) /\ IsImage(rin) /\ rin.lines # <<>>

\* C8 as stated: with at least one candidate the image is rotated about its
\* centre by the negative of the skew angle, the median of the normalized
\* angles: the angle passed to the rotation is -median.
C8_RotatesByNegatedMedian ==
  Rotated =>
    /\ ~rout.raised
    /\ rout.val = [rin EXCEPT !.ops = <<[f |-> "warpAffine", a |-> -SkewAngle2(rin.lines)]>>]

\* C8 amended: with at least one candidate the image is rotated about its
\* centre by the skew angle itself, the median over all candidates of
\* (angle in degrees - 90), passed to the rotation without a change of
\* sign, for every non-empty list of candidates; size and channels are the
\* input's.
C8_RotatesByMedian ==
  Rotated =>
    /\ ~rout.raised
    /\ rout.val = [rin EXCEPT !.ops = <<[f |-> "warpAffine", a |-> SkewAngle2(rin.lines)]>>]

\* Three candidates with an outlier, and two whose median is their mean.
C8_Witness ==
  /\ Rotated
  /\ \/ rin.lines = <<91, 178, 93>> /\ rout.val.ops[1].a = 6
     \/ rin.lines = <<93, 90>> /\ rout.val.ops[1].a = 3

====
